---- MODULE Spec2Model ----
(***************************************************************************)
(* The image-to-explanation request pipeline of the backend: the three     *)
(* image endpoints of app.py (analyze_image, chat_about_image,             *)
(* analyze_image_base64), the recognizer wrapper of image_recognition.py   *)
(* and the two variants of generate_response / _chat                       *)
(* (dynamic_response.py, which app.py imports, and                         *)
(* backend/dynamic_response.py, which adds visual_facts).                  *)
(*                                                                         *)
(* Text is a sequence of chunks (strings): fixed literals of the source    *)
(* are one chunk each, caller-supplied text is a sequence of smaller       *)
(* chunks, and an f-string or a join is sequence concatenation.            *)
(***************************************************************************)
EXTENDS Naturals, Sequences, FiniteSets, TLC

VARIABLES
    req,            \* app.py 66-204: the requests in flight, each a record of its
                    \* inputs, the handler's locals and position, and its response
    GROQ_API_KEY,   \* dynamic_response.py 9: the credential read at import
    call            \* a direct call of generate_response: arguments and result

vars == <<req, GROQ_API_KEY, call>>

\* ------------------------------------------------------------------ bounds

\* Number of requests handled concurrently under ConcSpec.
NumReq == 2

\* Longest caller-supplied history drawn for a direct call of generate_response.
MaxHistLen == 2

\* ----------------------------------------------------------- Python values

\* A value whose type the code inspects (truthiness, isinstance) carries it.
None == [type |-> "NoneType", val |-> <<>>]

PyStr(t) == [type |-> "str", val |-> t]

PyList(s) == [type |-> "list", val |-> s]

PyDict(d) == [type |-> "dict", val |-> d]

\* Python truthiness of a tagged value: None, "", [] and {} are falsy.
Truthy(v) ==
    CASE v.type = "NoneType" -> FALSE
      [] v.type = "UploadFile" -> TRUE
      [] v.type = "dict" -> DOMAIN v.val # {}
      [] OTHER -> v.val # <<>>

\* the dict literal {"role": role, "content": content}
Turn(role, content) == [role |-> role, content |-> content]

\* sep.join(parts), parts a sequence of texts
RECURSIVE Join(_, _)
Join(sep, parts) ==
    IF parts = <<>> THEN <<>>
    ELSE IF Len(parts) = 1 THEN parts[1]
    ELSE parts[1] \o sep \o Join(sep, Tail(parts))

\* s.replace(old, new) on the chunks of s
RECURSIVE Replace(_, _, _)
Replace(s, old, new) ==
    IF s = <<>> THEN <<>>
    ELSE <<IF Head(s) = old THEN new ELSE Head(s)>> \o Replace(Tail(s), old, new)

Whitespace == {" ", "\n", "\t"}

RECURSIVE LStrip(_)
LStrip(s) ==
    IF s # <<>> /\ Head(s) \in Whitespace THEN LStrip(Tail(s)) ELSE s

RECURSIVE RStrip(_)
RStrip(s) ==
    IF s # <<>> /\ s[Len(s)] \in Whitespace THEN RStrip(SubSeq(s, 1, Len(s) - 1)) ELSE s

\* str.strip()
Strip(s) == RStrip(LStrip(s))

\* ------------------------------------------------ image_recognition.py

\* The label vocabulary read once at import (ImageNetLabels.txt).
imagenet_labels == << <<"background">>, <<"tench">>, <<"tabby">> >>

\* The byte strings a request can carry: bytes PIL decodes into an image that
\* the classifier maps to class argmax, and bytes PIL cannot decode.
ImagePayloads ==
    {[decodable |-> TRUE, argmax |-> c] : c \in DOMAIN imagenet_labels}
        \cup {[decodable |-> FALSE, argmax |-> 1]}

\* A call's outcome: the value returned, or the message of the exception raised.
Return(v) == [raised |-> FALSE, value |-> v]

Raise(msg) == [raised |-> TRUE, value |-> msg]

\* Mutant: bytes that are no image are taken for an image of the first class.
preprocess_image_lenient(image_path) == Return(image_path.argmax)

\* Image.open(...).resize(...) raises on bytes that are no image.
preprocess_image(image_path) ==
    IF image_path.decodable THEN Return(image_path.argmax)
    ELSE Raise(<<"cannot identify image file">>)

recognize_image(image_path) ==
    LET img == preprocess_image(image_path)
    IN  IF img.raised THEN img ELSE Return(imagenet_labels[img.value])

\* ------------------------------------------------ dynamic_response.py

\* os.getenv("GROQ_API_KEY"): unset, set to the empty string, or set.
Credentials == {None, PyStr(<<>>), PyStr(<<"gsk_key">>)}

NoKeyMessage == <<"I couldn't reach the AI service. Please set GROQ_API_KEY.">>

\* What the chat-completion backend does with one POST: answers with a body
\* whose content is `content`, or fails in one of the ways _chat can meet.
Failures == {"network", "timeout", "status", "bad_json", "bad_shape"}

RawAnswers == { <<" ", "Cats purr.", "\n">>, <<"Fish swim.">> }

Outcomes ==
    {[kind |-> "ok", content |-> a] : a \in RawAnswers}
        \cup {[kind |-> k, content |-> <<>>] : k \in Failures}

\* str(e) of the exception each failure raises inside _chat
ExceptionText(kind) ==
    CASE kind = "network" -> <<"Connection refused">>
      [] kind = "timeout" -> <<"Read timed out. (read timeout=45)">>
      [] kind = "status" -> <<"500 Server Error">>
      [] kind = "bad_json" -> <<"Expecting value: line 1 column 1 (char 0)">>
      [] kind = "bad_shape" -> <<"'choices'">>

\* Mutant: the POST is sent whether or not a key is set.
_chat_no_key_check(messages, outcome) ==
    IF outcome.kind = "ok"
    THEN [raised |-> FALSE, value |-> Strip(outcome.content), posted |-> TRUE]
    ELSE [raised |-> TRUE, value |-> ExceptionText(outcome.kind), posted |-> TRUE]

\* _chat(messages): the outcome, and whether the POST was attempted.
_chat(messages, outcome) ==
    IF ~Truthy(GROQ_API_KEY)
    THEN [raised |-> FALSE, value |-> NoKeyMessage, posted |-> FALSE]
    ELSE IF outcome.kind = "ok"
    THEN [raised |-> FALSE, value |-> Strip(outcome.content), posted |-> TRUE]
    ELSE [raised |-> TRUE, value |-> ExceptionText(outcome.kind), posted |-> TRUE]

sys ==
    <<"You are a friendly, educational tutor for kids. ",
      "Explain concepts simply and accurately. Keep answers concise.">>

\* Mutant: the question turn is appended even when the question is empty.
prompt_always_question(object_label, question, history) ==
    LET base == <<Turn(<<"system">>, sys),
                  Turn(<<"user">>, <<"The image contains: ">> \o object_label \o <<".">>)>>
        extended == IF Truthy(history) /\ history.type = "list"
                    THEN base \o history.val ELSE base
    IN  Append(extended, Turn(<<"user">>, <<"Question about this image: ">> \o question))

\* the parsed histories of requests 1..k, one after the other
RECURSIVE SharedHistory(_)
SharedHistory(k) ==
    IF k = 0 \/ k \notin DOMAIN req THEN <<>>
    ELSE SharedHistory(k - 1)
             \o (IF req[k].parsed_history.type = "list" THEN req[k].parsed_history.val
                 ELSE <<>>)

\* Mutant: the turns are kept in one list of the process, shared by all requests.
prompt_shared_history(object_label, question, history) ==
    LET base == <<Turn(<<"system">>, sys),
                  Turn(<<"user">>, <<"The image contains: ">> \o object_label \o <<".">>)>>
        extended == (IF Truthy(history) /\ history.type = "list"
                     THEN base \o history.val ELSE base) \o SharedHistory(NumReq)
    IN  IF question # <<>>
        THEN Append(extended, Turn(<<"user">>, <<"Question about this image: ">> \o question))
        ELSE Append(extended, Turn(<<"user">>, <<"Teach me something interesting about it.">>))

\* The message list generate_response builds before it calls _chat.
prompt(object_label, question, history) ==
    LET base == <<Turn(<<"system">>, sys),
                  Turn(<<"user">>, <<"The image contains: ">> \o object_label \o <<".">>)>>
        extended == IF Truthy(history) /\ history.type = "list"
                    THEN base \o history.val ELSE base
    IN  IF question # <<>>
        THEN Append(extended, Turn(<<"user">>, <<"Question about this image: ">> \o question))
        ELSE Append(extended, Turn(<<"user">>, <<"Teach me something interesting about it.">>))

\* Mutant: no try/except around _chat; its exception reaches the handler.
generate_response_reraise(object_label, question, history, outcome) ==
    LET messages == prompt(object_label, question, history)
        r == _chat(messages, outcome)
    IN  [raised |-> r.raised, value |-> r.value, posted |-> r.posted,
         messages |-> messages]

generate_response(object_label, question, history, outcome) ==
    LET messages == prompt(object_label, question, history)
        r == _chat(messages, outcome)
    IN  [raised |-> FALSE,
         value |-> IF r.raised THEN <<"(AI error) ">> \o r.value ELSE r.value,
         posted |-> r.posted,
         messages |-> messages]

\* ---------------------------------------- backend/dynamic_response.py

\* Mutant: facts with an empty value are listed too.
vf_txt_unfiltered(visual_facts) ==
    IF ~Truthy(visual_facts) THEN <<>>
    ELSE LET parts == [i \in DOMAIN visual_facts.val |->
                          Replace(visual_facts.val[i][1], "_", " ") \o <<": ">>
                              \o visual_facts.val[i][2]]
         IN  IF parts = <<>> THEN <<>>
             ELSE <<"Visual facts (precomputed): ">> \o Join(<<"; ">>, parts)

\* visual_facts is a dict: its items in insertion order, as <<key, value>>.
vf_txt(visual_facts) ==
    IF ~Truthy(visual_facts) THEN <<>>
    ELSE LET nonempty == SelectSeq(visual_facts.val, LAMBDA kv : kv[2] # <<>>)
             parts == [i \in DOMAIN nonempty |->
                          Replace(nonempty[i][1], "_", " ") \o <<": ">> \o nonempty[i][2]]
         IN  IF parts = <<>> THEN <<>>
             ELSE <<"Visual facts (precomputed): ">> \o Join(<<"; ">>, parts)

backend_sys ==
    <<"You are a friendly educational tutor for kids. ",
      "Explain simply and accurately. Prefer short, clear sentences. ",
      "Use any provided visual facts; do NOT ask the user to describe the image.">>

\* Mutant: the history is put before the visual-facts turn.
backend_base_history_first(object_label, question, history, visual_facts) ==
    LET txt == vf_txt(visual_facts)
        base == <<Turn(<<"system">>, backend_sys),
                  Turn(<<"user">>, <<"The image contains: ">> \o object_label \o <<".">>)>>
        extended == IF Truthy(history) /\ history.type = "list"
                    THEN base \o history.val ELSE base
        withfacts == IF txt # <<>> THEN Append(extended, Turn(<<"user">>, txt)) ELSE extended
    IN  IF question # <<>>
        THEN Append(withfacts, Turn(<<"user">>, <<"Question about this image: ">> \o question))
        ELSE Append(withfacts, Turn(<<"user">>, <<"Teach me something interesting about it.">>))

backend_base(object_label, question, history, visual_facts) ==
    LET txt == vf_txt(visual_facts)
        base == <<Turn(<<"system">>, backend_sys),
                  Turn(<<"user">>, <<"The image contains: ">> \o object_label \o <<".">>)>>
        withfacts == IF txt # <<>> THEN Append(base, Turn(<<"user">>, txt)) ELSE base
        extended == IF Truthy(history) /\ history.type = "list"
                    THEN withfacts \o history.val ELSE withfacts
    IN  IF question # <<>>
        THEN Append(extended, Turn(<<"user">>, <<"Question about this image: ">> \o question))
        ELSE Append(extended, Turn(<<"user">>, <<"Teach me something interesting about it.">>))

backend_generate_response(object_label, question, history, visual_facts, outcome) ==
    LET messages == backend_base(object_label, question, history, visual_facts)
        r == _chat(messages, outcome)
    IN  [raised |-> FALSE,
         value |-> IF r.raised THEN <<"(AI error) ">> \o r.value ELSE r.value,
         posted |-> r.posted,
         messages |-> messages]

\* ------------------------------------------------------------ json.loads

\* The history form field is a string; it is held as the lexemes json.loads
\* reads from it: punctuation, string literals, and anything else.
P(s) == [t |-> "punct", v |-> s]

S(s) == [t |-> "str", v |-> s]

X(s) == [t |-> "other", v |-> s]

NoParse == [ok |-> FALSE, type |-> "NoneType", val |-> <<>>, next |-> 0]

Parsed(type, val, next) == [ok |-> TRUE, type |-> type, val |-> val, next |-> next]

IsTok(toks, i, tok) == i <= Len(toks) /\ toks[i] = tok

RECURSIVE ParseValue(_, _)
RECURSIVE ParseItems(_, _, _)
RECURSIVE ParseMembers(_, _, _)

\* value := string | "[" items "]" | "{" members "}"
ParseValue(toks, i) ==
    IF i > Len(toks) THEN NoParse
    ELSE IF toks[i].t = "str" THEN Parsed("str", <<toks[i].v>>, i + 1)
    ELSE IF toks[i] = P("[")
    THEN IF IsTok(toks, i + 1, P("]")) THEN Parsed("list", <<>>, i + 2)
         ELSE ParseItems(toks, i + 1, <<>>)
    ELSE IF toks[i] = P("{")
    THEN IF IsTok(toks, i + 1, P("}")) THEN Parsed("dict", <<>>, i + 2)
         ELSE ParseMembers(toks, i + 1, <<>>)
    ELSE NoParse

\* items := value ("," value)*, up to the closing bracket
ParseItems(toks, i, acc) ==
    LET v == ParseValue(toks, i)
    IN  IF ~v.ok THEN NoParse
        ELSE IF IsTok(toks, v.next, P(",")) THEN ParseItems(toks, v.next + 1, Append(acc, v.val))
        ELSE IF IsTok(toks, v.next, P("]")) THEN Parsed("list", Append(acc, v.val), v.next + 1)
        ELSE NoParse

\* members := string ":" value ("," string ":" value)*, up to the closing brace;
\* a repeated key keeps its last value
ParseMembers(toks, i, acc) ==
    IF ~(i + 1 <= Len(toks) /\ toks[i].t = "str" /\ toks[i + 1] = P(":")) THEN NoParse
    ELSE LET v == ParseValue(toks, i + 2)
             d == (toks[i].v :> v.val) @@ acc
         IN  IF ~v.ok THEN NoParse
             ELSE IF IsTok(toks, v.next, P(",")) THEN ParseMembers(toks, v.next + 1, d)
             ELSE IF IsTok(toks, v.next, P("}")) THEN Parsed("dict", d, v.next + 1)
             ELSE NoParse

\* json.loads(s): the value, or JSONDecodeError
JsonLoads(toks) ==
    LET r == ParseValue(toks, 1)
    IN  IF r.ok /\ r.next = Len(toks) + 1
        THEN Return([type |-> r.type, val |-> r.val])
        ELSE Raise(<<"Expecting value">>)

\* ------------------------------------------------------ base64.b64decode

\* The encodings this model knows, and the bytes each decodes to.
B64Table ==
    ("aW1nLXRlbmNo" :> [decodable |-> TRUE, argmax |-> 2])
        @@ ("aW1nLXRhYmJ5" :> [decodable |-> TRUE, argmax |-> 3])
        @@ ("bm90IGFuIGltYWdl" :> [decodable |-> FALSE, argmax |-> 1])

\* base64.b64decode(s): the bytes, or binascii.Error
b64decode(s) ==
    IF Len(s) = 1 /\ s[1] \in DOMAIN B64Table THEN Return(B64Table[s[1]])
    ELSE Raise(<<"Incorrect padding">>)

\* s.split(",", 1)[-1] if "," in s else s
RECURSIVE AfterFirstComma(_)
AfterFirstComma(s) ==
    IF s = <<>> THEN <<>>
    ELSE IF Head(s) = "," THEN Tail(s)
    ELSE AfterFirstComma(Tail(s))

b64_str(image_base64) ==
    IF \E i \in DOMAIN image_base64 : image_base64[i] = ","
    THEN AfterFirstComma(image_base64) ELSE image_base64

\* ------------------------------------------------------- app.py: requests

UploadFile(bytes) == [type |-> "UploadFile", val |-> bytes]

\* A JSON object {"role": ..., "content": ...} as the client writes it.
TurnJson(role, content) ==
    <<P("{"), S("role"), P(":"), S(role), P(","), S("content"), P(":"), S(content), P("}")>>

\* Values of the multipart `history` field: absent, empty, well-formed lists,
\* well-formed JSON that is no list, and strings json.loads rejects.
HistoryFields ==
    {None,
     PyStr(<<>>),
     PyStr(<<P("["), P("]")>>),
     PyStr(<<P("[")>> \o TurnJson("user", "Is it soft?") \o <<P("]")>>),
     PyStr(<<P("[")>> \o TurnJson("user", "Is it soft?") \o <<P(",")>>
               \o TurnJson("assistant", "Yes!") \o <<P("]")>>),
     PyStr(TurnJson("user", "Is it soft?")),
     PyStr(<<P("[")>> \o TurnJson("user", "Is it soft?")),
     PyStr(<<X("not json")>>)}

\* Values of the JSON body's `history` (Optional[list]).
HistoryLists ==
    {None,
     PyList(<<>>),
     PyList(<<Turn(<<"user">>, <<"Is it soft?">>), Turn(<<"assistant">>, <<"Yes!">>)>>)}

Questions ==
    { <<>>, <<"W", "h", "y", "?">>, <<"W", "h", "a", "t", " ", "C", "o", "l", "O", "R", "?">> }

Endpoints == {"analyze_image", "chat_about_image", "analyze_image_base64"}

\* A request as it arrives: its inputs, and the handler's locals still unset.
NewRequest(endpoint, file, image, image_base64, question, history) ==
    [endpoint |-> endpoint, file |-> file, image |-> image,
     image_base64 |-> image_base64, question |-> question, history |-> history,
     pc |-> "Received",
     image_bytes |-> [decodable |-> FALSE, argmax |-> 1],
     object_label |-> <<>>,
     parsed_history |-> None,
     messages |-> <<>>,
     ai_response |-> <<>>,
     outcome |-> "",
     status |-> 0,
     body |-> <<>>,
     recognizer_calls |-> 0,
     generator_calls |-> 0,
     posts |-> 0,
     responses |-> 0]

Files == {None} \cup {UploadFile(b) : b \in ImagePayloads}

Images == {None, UploadFile([decodable |-> TRUE, argmax |-> 2])}

Base64Bodies ==
    { <<"data:image/png;base64", ",", "aW1nLXRlbmNo">>, <<"aW1nLXRlbmNo">>,
      <<"aW1nLXRhYmJ5">>, <<"bm90IGFuIGltYWdl">>, <<"aW1nLXRlbmNo=">> }

Requests ==
    {NewRequest("analyze_image", f, i, <<>>, PyStr(<<>>), None) :
        f \in Files, i \in Images}
    \cup {NewRequest("chat_about_image", f, i, <<>>, PyStr(q), h) :
        f \in Files, i \in Images, q \in Questions, h \in HistoryFields}
    \cup {NewRequest("analyze_image_base64", None, None, b, q, h) :
        b \in Base64Bodies, q \in {None} \cup {PyStr(t) : t \in Questions},
        h \in HistoryLists}

\* Requests of the concurrent runs: request n's image, question and history
\* name n.
ConcRequests(n) ==
    {NewRequest("chat_about_image",
                UploadFile([decodable |-> TRUE, argmax |-> (n % Len(imagenet_labels)) + 1]),
                None, <<>>, PyStr(<<"Q", ToString(n)>>), h) :
        h \in {None,
               PyStr(<<P("[")>> \o TurnJson("user", ToString(n)) \o <<P("]")>>),
               PyStr(<<P("[")>> \o TurnJson("user", ToString(n)))}}

NoCall ==
    [pc |-> "none", object_label |-> <<>>, question |-> <<>>, history |-> None,
     visual_facts |-> None, variant |-> "", result |-> Return(<<>>)]

\* ------------------------------------------------------- app.py: handlers

\* upload = file or image
upload(r) == IF Truthy(r.file) THEN r.file ELSE r.image

\* Mutant: json.loads is called without its try/except.
parsed_history_uncaught(history) ==
    IF Truthy(history) THEN JsonLoads(history.val) ELSE Return(None)

\* chat_about_image: parsed_history, None unless the field is set and parses;
\* the try/except around json.loads lets no exception out
parsed_history(history) ==
    IF Truthy(history)
    THEN LET j == JsonLoads(history.val)
         IN  IF j.raised THEN Return(None) ELSE Return(j.value)
    ELSE Return(None)

\* The arguments each handler passes to generate_response.
analyze_image_args(r) == [question |-> <<>>, history |-> None]

chat_about_image_args(r) == [question |-> r.question.val, history |-> r.parsed_history]

analyze_image_base64_args(r) ==
    [question |-> IF Truthy(r.question) THEN r.question.val ELSE <<>>,
     history |-> IF r.history.type = "list" THEN r.history ELSE None]

generate_args(r) ==
    CASE r.endpoint = "analyze_image" -> analyze_image_args(r)
      [] r.endpoint = "chat_about_image" -> chat_about_image_args(r)
      [] r.endpoint = "analyze_image_base64" -> analyze_image_base64_args(r)

\* The handler's try/except around generate_response.
ai_response(g) ==
    IF g.raised THEN <<"Sorry, I couldn't generate a response.">> ELSE g.value

\* The JSON each handler answers with once generation is over.
analyze_image_content(r) ==
    [object_label |-> r.object_label, ai_response |-> r.ai_response]

chat_about_image_content(r) ==
    [object_label |-> r.object_label, question |-> r.question.val,
     ai_response |-> r.ai_response]

analyze_image_base64_content(r) ==
    [object_label |-> r.object_label,
     question |-> IF Truthy(r.question) THEN r.question.val ELSE <<>>,
     ai_response |-> r.ai_response]

content(r) ==
    CASE r.endpoint = "analyze_image" -> analyze_image_content(r)
      [] r.endpoint = "chat_about_image" -> chat_about_image_content(r)
      [] r.endpoint = "analyze_image_base64" -> analyze_image_base64_content(r)

\* JSONResponse(content=..., status_code=...): the request's one response.
JSONResponse(r, body, status_code, pc) ==
    [r EXCEPT !.body = body, !.status = status_code, !.pc = pc,
              !.responses = @ + 1]

\* Mutant: the handler does not check that a file was uploaded.
ReadBytes_unchecked(r) ==
    IF r.endpoint = "analyze_image_base64"
    THEN LET d == b64decode(b64_str(r.image_base64))
         IN  IF d.raised
             THEN JSONResponse(r, [error |-> d.value], 500, "Error")
             ELSE [r EXCEPT !.image_bytes = d.value, !.pc = "Validated"]
    ELSE IF ~Truthy(upload(r))
         THEN [r EXCEPT !.pc = "Validated"]
         ELSE [r EXCEPT !.image_bytes = upload(r).val, !.pc = "Validated"]

\* The bytes the handler reads: the upload's, or the decoded base64 string;
\* a request without upload is answered 400, a decode error 500.
ReadBytes(r) ==
    IF r.endpoint = "analyze_image_base64"
    THEN LET d == b64decode(b64_str(r.image_base64))
         IN  IF d.raised
             THEN JSONResponse(r, [error |-> d.value], 500, "Error")
             ELSE [r EXCEPT !.image_bytes = d.value, !.pc = "Validated"]
    ELSE IF ~Truthy(upload(r))
         THEN JSONResponse(r,
                  [error |-> <<"No file uploaded (field must be 'file' or 'image').">>],
                  400, "Error")
         ELSE [r EXCEPT !.image_bytes = upload(r).val, !.pc = "Validated"]

Validate(n) ==
    /\ n \in DOMAIN req
    /\ req[n].pc = "Received"
    /\ req' = [req EXCEPT ![n] = ReadBytes(req[n])]
    /\ UNCHANGED <<GROQ_API_KEY, call>>

\* object_label = recognize_image(image_stream); an exception ends in the
\* handler's outer except: 500 and {"error": str(e)}
Recognized(r) ==
    LET l == recognize_image(r.image_bytes)
        called == [r EXCEPT !.recognizer_calls = @ + 1]
    IN  IF l.raised
        THEN JSONResponse(called, [error |-> l.value], 500, "Error")
        ELSE [called EXCEPT !.object_label = l.value, !.pc = "Recognized"]

Recognize(n) ==
    /\ n \in DOMAIN req
    /\ req[n].pc = "Validated"
    /\ req' = [req EXCEPT ![n] = Recognized(req[n])]
    /\ UNCHANGED <<GROQ_API_KEY, call>>

\* The history is parsed (chat_about_image only), generate_response is entered
\* and builds its message list; an exception before the call would end in the
\* handler's outer except.
Composed(r) ==
    LET h == IF r.endpoint = "chat_about_image"
             THEN parsed_history(r.history) ELSE Return(None)
        parsed == [r EXCEPT !.parsed_history = h.value]
        args == generate_args(parsed)
    IN  IF h.raised
        THEN JSONResponse(r, [error |-> h.value], 500, "Error")
        ELSE [parsed EXCEPT !.generator_calls = @ + 1,
                            !.messages = prompt(r.object_label, args.question,
                                                args.history),
                            !.pc = "Composed"]

Compose(n) ==
    /\ n \in DOMAIN req
    /\ req[n].pc = "Recognized"
    /\ req' = [req EXCEPT ![n] = Composed(req[n])]
    /\ UNCHANGED <<GROQ_API_KEY, call>>

\* generate_response calls _chat and returns; the handler keeps the text.
\* outcome records what the backend did with the POST, if one was sent.
Generated(r, outcome) ==
    LET args == generate_args(r)
        g == generate_response(r.object_label, args.question, args.history, outcome)
    IN  [r EXCEPT !.ai_response = ai_response(g),
                  !.posts = @ + (IF g.posted THEN 1 ELSE 0),
                  !.outcome = IF g.posted THEN outcome.kind ELSE "not posted",
                  !.pc = "Generated"]

Chat(n) ==
    /\ n \in DOMAIN req
    /\ req[n].pc = "Composed"
    /\ \E outcome \in Outcomes : req' = [req EXCEPT ![n] = Generated(req[n], outcome)]
    /\ UNCHANGED <<GROQ_API_KEY, call>>

Respond(n) ==
    /\ n \in DOMAIN req
    /\ req[n].pc = "Generated"
    /\ req' = [req EXCEPT ![n] = JSONResponse(req[n], content(req[n]), 200, "Responded")]
    /\ UNCHANGED <<GROQ_API_KEY, call>>

\* ------------------------------------ direct calls of generate_response

Labels == {imagenet_labels[c] : c \in DOMAIN imagenet_labels}

HistoryTurns ==
    {Turn(<<"user">>, <<"Is it soft?">>), Turn(<<"assistant">>, <<"Yes!">>),
     Turn(<<"system">>, <<"Be brief.">>)}

SeqsUpTo(T, k) == UNION {[1..m -> T] : m \in 0..k}

Histories ==
    {None, PyDict([role |-> <<"user">>, content |-> <<"Is it soft?">>]), PyStr(<<"[]">>)}
        \cup {PyList(h) : h \in SeqsUpTo(HistoryTurns, MaxHistLen)}

VisualFacts ==
    {None,
     PyDict(<<>>),
     PyDict(<< <<<<"dominant", "_", "color">>, <<"red">>>> >>),
     PyDict(<< <<<<"dominant", "_", "color">>, <<>>>> >>),
     PyDict(<< <<<<"dominant", "_", "color">>, <<"red">>>>, <<<<"shape">>, <<"round">>>> >>),
     PyDict(<< <<<<"dominant", "_", "color">>, <<>>>>, <<<<"shape">>, <<"round">>>> >>),
     PyDict(<< <<<<"dominant", "_", "color">>, <<>>>>, <<<<"shape">>, <<>>>> >>)}

Calls ==
    {[NoCall EXCEPT !.pc = "ready", !.object_label = l, !.question = q,
                    !.history = h, !.visual_facts = vf] :
        l \in Labels, q \in Questions, h \in Histories, vf \in VisualFacts}

CallGenerateResponse ==
    /\ call.pc = "ready"
    /\ \E outcome \in Outcomes :
          call' = [call EXCEPT !.pc = "returned", !.variant = "dynamic_response",
                       !.result = generate_response(call.object_label, call.question,
                                                    call.history, outcome)]
    /\ UNCHANGED <<req, GROQ_API_KEY>>

CallBackendGenerateResponse ==
    /\ call.pc = "ready"
    /\ \E outcome \in Outcomes :
          call' = [call EXCEPT !.pc = "returned", !.variant = "backend.dynamic_response",
                       !.result = backend_generate_response(call.object_label,
                                      call.question, call.history, call.visual_facts,
                                      outcome)]
    /\ UNCHANGED <<req, GROQ_API_KEY>>

\* ------------------------------------------------------- specifications

Init ==
    /\ req \in [{1} -> Requests]
    /\ GROQ_API_KEY \in Credentials
    /\ call = NoCall

ConcInit ==
    /\ req \in {f \in [1..NumReq -> UNION {ConcRequests(n) : n \in 1..NumReq}] :
                   \A n \in 1..NumReq : f[n] \in ConcRequests(n)}
    /\ GROQ_API_KEY \in Credentials
    /\ call = NoCall

ComposeInit ==
    /\ req = <<>>
    /\ GROQ_API_KEY \in Credentials
    /\ call \in Calls

Next ==
    \/ \E n \in 1..NumReq : Validate(n)
    \/ \E n \in 1..NumReq : Recognize(n)
    \/ \E n \in 1..NumReq : Compose(n)
    \/ \E n \in 1..NumReq : Chat(n)
    \/ \E n \in 1..NumReq : Respond(n)

ComposeNext == CallGenerateResponse \/ CallBackendGenerateResponse

\* One request at a time, every input.
Spec == Init /\ [][Next]_vars

\* NumReq requests handled concurrently, their steps interleaved.
ConcSpec == ConcInit /\ [][Next]_vars

\* generate_response of either variant called on every input.
ComposeSpec == ComposeInit /\ [][ComposeNext]_vars

\* ------------------------------------------------------------ claims

user == <<"user">>

LabelTurn(object_label) == Turn(user, <<"The image contains: ">> \o object_label \o <<".">>)

FactsPrefix == "Visual facts (precomputed): "

QuestionPrefix == "Question about this image: "

DefaultInstruction == <<"Teach me something interesting about it.">>

\* the turns a caller supplied: those of a list, none otherwise
SuppliedTurns(history) == IF history.type = "list" THEN history.val ELSE <<>>

\* some fact of the mapping has a non-empty value
HasFacts(visual_facts) ==
    /\ visual_facts.type = "dict"
    /\ \E i \in DOMAIN visual_facts.val : visual_facts.val[i][2] # <<>>

Returned(variant) == call.pc = "returned" /\ call.variant = variant

\* C1: the messages generate_response builds (either variant) are, in order:
\* one system turn, one user turn stating the label, the visual-facts turn
\* when there is one, every caller-supplied history turn verbatim and in the
\* caller's order, and last one user turn with the question or the default
\* instruction; nothing else.
C1_MessageOrder ==
    call.pc = "returned" =>
        LET m == call.result.messages
            facts == Returned("backend.dynamic_response") /\ HasFacts(call.visual_facts)
            k == IF facts THEN 3 ELSE 2
            h == SuppliedTurns(call.history)
        IN  /\ Len(m) = k + Len(h) + 1
            /\ m[1].role = <<"system">>
            /\ m[2] = LabelTurn(call.object_label)
            /\ facts => m[3].role = user /\ Head(m[3].content) = FactsPrefix
            /\ \A i \in 1..Len(h) : m[k + i] = h[i]
            /\ m[Len(m)].role = user
            /\ Head(m[Len(m)].content) \in {QuestionPrefix, Head(DefaultInstruction)}

\* C1 witness: a call of the backend variant returned with a visual-facts
\* turn, two history turns and a question.
C1_Witness ==
    /\ Returned("backend.dynamic_response")
    /\ HasFacts(call.visual_facts)
    /\ Len(SuppliedTurns(call.history)) = 2
    /\ call.question # <<>>
    /\ Len(call.result.messages) = 6

\* C2 as stated: the final user turn's content is the question verbatim when
\* one is given, the default instruction otherwise.
C2_FinalTurnVerbatim ==
    call.pc = "returned" =>
        LET last == call.result.messages[Len(call.result.messages)]
        IN  last.content = IF call.question # <<>> THEN call.question
                           ELSE DefaultInstruction

\* C2 as amended: the final user turn's content is "Question about this
\* image: " followed by the question verbatim when one is given, and
\* "Teach me something interesting about it." otherwise.
C2_FinalTurnPrefixed ==
    call.pc = "returned" =>
        LET last == call.result.messages[Len(call.result.messages)]
        IN  /\ last.role = user
            /\ call.question # <<>> =>
                  Head(last.content) = QuestionPrefix /\ Tail(last.content) = call.question
            /\ call.question = <<>> => last.content = DefaultInstruction

\* C2 witness: a call with a non-empty question returned.
C2_Witness ==
    /\ call.pc = "returned"
    /\ call.question = <<"W", "h", "y", "?">>
    /\ Len(call.result.messages[Len(call.result.messages)].content) = 5

\* ---- the handlers' claims: r is a request record of req

\* recognition has produced r's label
Labelled(r) == r.pc \in {"Recognized", "Composed", "Generated", "Responded"}

\* the bytes r carries, when it carries any
Carried(r) ==
    IF r.endpoint = "analyze_image_base64"
    THEN b64decode(b64_str(r.image_base64))
    ELSE IF Truthy(upload(r)) THEN Return(upload(r).val)
    ELSE Raise(<<"no upload">>)

ValidImage(r) == ~Carried(r).raised /\ Carried(r).value.decodable

\* C3: once recognition has produced a label, a failure of the generation
\* call (network error, timeout, non-success status, malformed body) never
\* ends the request in the Error state; the request is answered 200 with an
\* ai_response holding the text generate_response puts in the answer's
\* place, "(AI error) " and the exception's message, and no "error" key.
C3_GenerationFailureMasked ==
    \A n \in DOMAIN req :
        LET r == req[n]
        IN  r.outcome \in Failures =>
                /\ r.pc \in {"Generated", "Responded"}
                /\ r.ai_response = <<"(AI error) ">> \o ExceptionText(r.outcome)
                /\ r.pc = "Generated" => r.status = 0
                /\ r.pc = "Responded" =>
                      /\ r.status = 200
                      /\ "ai_response" \in DOMAIN r.body
                      /\ "error" \notin DOMAIN r.body
                      /\ r.body.ai_response = r.ai_response

\* C3 witness: a chat request whose POST timed out has been answered 200.
C3_Witness ==
    \E n \in DOMAIN req :
        /\ req[n].endpoint = "chat_about_image"
        /\ req[n].outcome = "timeout"
        /\ req[n].pc = "Responded"
        /\ req[n].status = 200

Lower(c) ==
    CASE c = "C" -> "c" [] c = "O" -> "o" [] c = "L" -> "l" [] c = "R" -> "r"
      [] OTHER -> c

\* "color" in question.lower()
ContainsColor(question) ==
    \E i \in 1..Len(question) :
        /\ i + 4 <= Len(question)
        /\ [j \in 1..5 |-> Lower(question[i + j - 1])] = <<"c", "o", "l", "o", "r">>

\* C4: a chat_about_image request with a valid image whose question
\* contains "color" in any letter case never invokes the Response Generator
\* (generate_response / _chat).
C4_ColorBypassesGenerator ==
    \A n \in DOMAIN req :
        LET r == req[n]
        IN  (/\ r.endpoint = "chat_about_image"
             /\ ValidImage(r)
             /\ ContainsColor(r.question.val))
                => r.generator_calls = 0 /\ r.posts = 0

\* C5: with GROQ_API_KEY missing (unset or empty), a request that passes
\* recognition never ends in the Error state and attempts no POST; it is
\* answered 200 with ai_response exactly the fixed message.
C5_MissingKeyMessage ==
    ~Truthy(GROQ_API_KEY) =>
        \A n \in DOMAIN req :
            LET r == req[n]
            IN  /\ r.posts = 0
                /\ Labelled(r) /\ r.pc \in {"Generated", "Responded"} =>
                      r.ai_response = NoKeyMessage
                /\ ValidImage(r) /\ r.recognizer_calls = 1 => Labelled(r)
                /\ r.pc = "Responded" =>
                      /\ r.status = 200
                      /\ r.body.ai_response =
                            <<"I couldn't reach the AI service. Please set GROQ_API_KEY.">>

\* C5 witness: without a key, a request of the base64 endpoint is answered.
C5_Witness ==
    /\ GROQ_API_KEY = None
    /\ \E n \in DOMAIN req :
          /\ req[n].endpoint = "analyze_image_base64"
          /\ req[n].pc = "Responded"
          /\ req[n].generator_calls = 1

\* ---- visual facts (backend/dynamic_response.py)

\* the facts with a non-empty value, in the mapping's order
NonEmptyFacts(visual_facts) ==
    IF visual_facts.type = "dict"
    THEN SelectSeq(visual_facts.val, LAMBDA kv : kv[2] # <<>>)
    ELSE <<>>

\* the turns of m whose content starts with the visual-facts prefix
FactsTurns(m) == {i \in DOMAIN m : m[i].content # <<>> /\ Head(m[i].content) = FactsPrefix}

\* "key: value" pairs joined by "; ", the key as the mapping holds it
FactsVerbatim(facts) ==
    Join(<<"; ">>, [i \in DOMAIN facts |-> facts[i][1] \o <<": ">> \o facts[i][2]])

\* "key: value" pairs joined by "; ", underscores of the key shown as spaces
FactsSpaced(facts) ==
    Join(<<"; ">>, [i \in DOMAIN facts |->
                      [j \in DOMAIN facts[i][1] |->
                          IF facts[i][1][j] = "_" THEN " " ELSE facts[i][1][j]]
                      \o <<": ">> \o facts[i][2]])

\* C6 as stated: without a fact of non-empty value the messages hold no
\* "Visual facts" turn; otherwise they hold exactly one, listing every fact
\* with a non-empty value, and only those, as "key: value" joined by "; ".
C6_FactsListedByKey ==
    Returned("backend.dynamic_response") =>
        LET m == call.result.messages
            facts == NonEmptyFacts(call.visual_facts)
        IN  IF facts = <<>> THEN FactsTurns(m) = {}
            ELSE /\ FactsTurns(m) = {3}
                 /\ Tail(m[3].content) = FactsVerbatim(facts)

\* C6 as amended: the same, each pair written as "key: value" with the
\* underscores of the key replaced by spaces ("dominant_color" is listed as
\* "dominant color: red"), after the prefix "Visual facts (precomputed): ".
C6_FactsListedSpaced ==
    Returned("backend.dynamic_response") =>
        LET m == call.result.messages
            facts == NonEmptyFacts(call.visual_facts)
        IN  IF facts = <<>> THEN FactsTurns(m) = {}
            ELSE /\ FactsTurns(m) = {3}
                 /\ m[3].role = user
                 /\ Tail(m[3].content) = FactsSpaced(facts)

\* C6 witness: a mapping with one empty and one non-empty value gave a
\* visual-facts turn listing the one fact.
C6_Witness ==
    /\ Returned("backend.dynamic_response")
    /\ Len(call.visual_facts.val) = 2
    /\ Len(NonEmptyFacts(call.visual_facts)) = 1
    /\ FactsTurns(call.result.messages) = {3}
    /\ call.result.messages[3].content = <<FactsPrefix, "shape", ": ", "round">>

\* ---- malformed history (chat_about_image)

\* the history field is set and json.loads rejects it
MalformedHistory(r) ==
    /\ r.endpoint = "chat_about_image"
    /\ Truthy(r.history)
    /\ JsonLoads(r.history.val).raised

\* C7: a chat_about_image request with a valid image whose history field
\* fails to parse as JSON is handled as the same request without history:
\* no history is passed on, the messages hold the three turns built from the
\* label and the question alone, the request never ends in the Error state,
\* and it is answered 200 with the question, the label and the generator's
\* text.
C7_MalformedHistoryIgnored ==
    \A n \in DOMAIN req :
        LET r == req[n]
            q == r.question.val
        IN  MalformedHistory(r) /\ ValidImage(r) =>
                /\ r.pc # "Error"
                /\ r.parsed_history = None
                /\ r.pc \in {"Composed", "Generated", "Responded"} =>
                      /\ Len(r.messages) = 3
                      /\ r.messages[2] = LabelTurn(r.object_label)
                      /\ r.messages[3] =
                            Turn(user, IF q # <<>> THEN <<QuestionPrefix>> \o q
                                       ELSE DefaultInstruction)
                /\ r.pc = "Responded" =>
                      /\ r.status = 200
                      /\ r.body = [object_label |-> r.object_label, question |-> q,
                                   ai_response |-> r.ai_response]

\* C7 witness: a request with a truncated history was answered 200.
C7_Witness ==
    \E n \in DOMAIN req :
        /\ MalformedHistory(req[n])
        /\ Len(req[n].history.val) > 1
        /\ req[n].pc = "Responded"
        /\ req[n].status = 200
        /\ Len(req[n].messages) = 3

\* ---- undecodable images

\* r carries bytes, and they do not decode as an image
Undecodable(r) ==
    /\ r.endpoint = "analyze_image_base64" \/ Truthy(upload(r))
    /\ ~ValidImage(r)

\* C8: a request whose bytes fail to decode as an image never gets past
\* recognition: the generator is not invoked, no POST is sent, and the
\* request ends in the Error state with one response, status 400 or 500 and
\* a body of the one key "error".
C8_UndecodableImageError ==
    \A n \in DOMAIN req :
        LET r == req[n]
        IN  Undecodable(r) =>
                /\ r.pc \in {"Received", "Validated", "Error"}
                /\ r.generator_calls = 0
                /\ r.posts = 0
                /\ r.pc = "Error" =>
                      /\ r.status \in {400, 500}
                      /\ DOMAIN r.body = {"error"}
                      /\ r.responses = 1

\* C8 witness: an upload PIL cannot decode was answered 500 by the handler
\* after the recognizer raised.
C8_Witness ==
    \E n \in DOMAIN req :
        /\ req[n].endpoint = "analyze_image"
        /\ Undecodable(req[n])
        /\ req[n].recognizer_calls = 1
        /\ req[n].pc = "Error"
        /\ req[n].status = 500

\* ---- stages

Terminal == {"Responded", "Error"}

StageSteps ==
    {<<"Received", "Validated">>, <<"Validated", "Recognized">>,
     <<"Recognized", "Composed">>, <<"Composed", "Generated">>,
     <<"Generated", "Responded">>}

\* one step of the system, seen from request r (before) and s (after)
StageStep(r, s) ==
    /\ \/ s.pc = r.pc
       \/ <<r.pc, s.pc>> \in StageSteps
       \/ r.pc \notin Terminal /\ s.pc = "Error"
    \* the recognizer: once, from Validated, on bytes the request carries
    /\ s.recognizer_calls \in {r.recognizer_calls, r.recognizer_calls + 1}
    /\ s.recognizer_calls > r.recognizer_calls =>
          /\ r.pc = "Validated"
          /\ r.recognizer_calls = 0
          /\ ~Carried(r).raised /\ r.image_bytes = Carried(r).value
    \* the generator: once, after the recognizer returned a label
    /\ s.generator_calls \in {r.generator_calls, r.generator_calls + 1}
    /\ s.generator_calls > r.generator_calls =>
          /\ r.pc = "Recognized"
          /\ r.generator_calls = 0
          /\ r.recognizer_calls = 1
          /\ r.object_label \in {imagenet_labels[c] : c \in DOMAIN imagenet_labels}
    /\ s.posts \in {r.posts, r.posts + 1}
    /\ s.posts > r.posts => r.pc = "Composed" /\ r.posts = 0
    \* one response, given as the request reaches Responded or Error
    /\ s.responses = IF s.pc \in Terminal THEN 1 ELSE 0
    /\ s.pc = "Responded" => s.status = 200
    /\ s.pc = "Error" => s.status \in {400, 500}
    \* without an upload: 400, and the recognizer is never invoked
    /\ (r.endpoint # "analyze_image_base64" /\ ~Truthy(upload(r))) =>
          /\ s.recognizer_calls = 0
          /\ s.pc \in {"Received", "Error"}
          /\ s.pc = "Error" => s.status = 400

\* C9: a request moves through Received, Validated, Recognized, Composed,
\* Generated, Responded in this order, or into Error; the recognizer is
\* invoked only on a validated request (never without an upload, which is
\* answered 400), the generator only after the recognizer returned a label,
\* each at most once, and the request gets exactly one response, as it
\* reaches Responded or Error.
C9_StageOrder ==
    [][\A n \in DOMAIN req : StageStep(req[n], req'[n])]_vars

\* C9 witness: a request went through every stage.
C9_Witness ==
    \E n \in DOMAIN req :
        /\ req[n].pc = "Responded"
        /\ req[n].recognizer_calls = 1
        /\ req[n].generator_calls = 1
        /\ req[n].posts = 1
        /\ req[n].responses = 1

\* ---- isolation of concurrent requests

\* the history turns request n itself supplied: one that names n when its
\* history field is the well-formed list, none otherwise
OwnTurns(n, r) ==
    IF r.history = PyStr(<<P("[")>> \o TurnJson("user", ToString(n)) \o <<P("]")>>)
    THEN <<Turn(user, <<ToString(n)>>)>> ELSE <<>>

\* what request n's inputs alone determine (its image, question and history
\* name n)
OwnOnly(n, r) ==
    /\ r.pc # "Error"
    /\ Labelled(r) => r.object_label = imagenet_labels[r.file.val.argmax]
    /\ r.parsed_history \in {None, PyList(OwnTurns(n, r))}
    /\ r.pc \in {"Composed", "Generated", "Responded"} =>
          LET m == r.messages
              h == OwnTurns(n, r)
          IN  /\ r.parsed_history = IF h = <<>> THEN None ELSE PyList(h)
              /\ Len(m) = 3 + Len(h)
              /\ m[2] = LabelTurn(r.object_label)
              /\ \A i \in 1..Len(h) : m[2 + i] = h[i]
              /\ m[Len(m)] = Turn(user, <<QuestionPrefix, "Q", ToString(n)>>)
    /\ r.pc = "Responded" =>
          /\ r.status = 200
          /\ r.body.question = <<"Q", ToString(n)>>
          /\ r.body.object_label = r.object_label
          /\ r.body.ai_response = r.ai_response

\* C10: under any interleaving of the requests' steps, each request's
\* messages and response are those of its own label, question and history:
\* no turn of another request's history enters them, a step of one request
\* changes no other request, and the caller's inputs stay as supplied.
C10_RequestsIsolated ==
    [][\A n \in DOMAIN req :
          /\ OwnOnly(n, req'[n])
          /\ req'[n].history = req[n].history
          /\ req'[n].question = req[n].question
          /\ req'[n] # req[n] => \A k \in DOMAIN req \ {n} : req'[k] = req[k]]_vars

\* C10 witness: two requests are in flight at once, both with their messages
\* composed and the POST pending, one with a history and one without.
C10_Witness ==
    /\ 2 \in DOMAIN req
    /\ req[1].pc = "Composed" /\ Len(req[1].messages) = 4
    /\ req[2].pc = "Composed" /\ Len(req[2].messages) = 3

====
